---------------------------- MODULE Spec2Model ----------------------------
(***************************************************************************)
(* Model of the Azure Updates dashboard (src/src/App.tsx, first App        *)
(* component, lines 70-515): the derivation of the domain list and of the  *)
(* week buckets, the three-axis filter, and the view state with its        *)
(* handlers.                                                               *)
(*                                                                         *)
(* Text is a sequence of characters; a character is one of the tokens of   *)
(* Chars.  A record's date is the date-only ISO string "YYYY-MM-DD",       *)
(* written <<y, m, d>>.  A Date object is its time value, in milliseconds, *)
(* counted from 00:00 UTC of ModelEpoch rather than of 1970-01-01 so that  *)
(* the values fit the checker's integers; calendar fields are computed     *)
(* from the day count since 1970-01-01 as the runtime does.  The browser's *)
(* time zone is a fixed offset from UTC, chosen when the page is opened;   *)
(* daylight-saving changes are not modelled.                               *)
(***************************************************************************)
EXTENDS Integers, Sequences, FiniteSets, TLC

(***************************************************************************)
(* Bounds of the model.                                                    *)
(***************************************************************************)
\* the record collection holds at most MaxRecords records
MaxRecords == 2

(***************************************************************************)
(* Strings: String.prototype.toLowerCase, trim and includes.               *)
(***************************************************************************)
\* "SIGMA" is U+03A3, "sigma" U+03C3, "fsigma" U+03C2 (final sigma)
Chars == {"a", "A", "sigma", "SIGMA", "fsigma", " "}

\* a letter that has a case (Unicode property Cased)
Cased(c) == c \in {"a", "A", "sigma", "SIGMA", "fsigma"}

\* white space as String.prototype.trim sees it
IsWhiteSpace(c) == c = " "

\* Unicode condition Final_Sigma (SpecialCasing.txt): the sigma at i follows
\* a cased letter and is not followed by one
FinalSigma(s, i) ==
    /\ i > 1
    /\ Cased(s[i - 1])
    /\ ~(i < Len(s) /\ Cased(s[i + 1]))

\* the lower-case mapping of the character at position i of s
LowerAt(s, i) ==
    CASE s[i] = "A" -> "a"
      [] s[i] = "SIGMA" -> IF FinalSigma(s, i) THEN "fsigma" ELSE "sigma"
      [] OTHER -> s[i]

\* String.prototype.toLowerCase
toLowerCase(s) == [i \in 1..Len(s) |-> LowerAt(s, i)]

\* String.prototype.trim
RECURSIVE trim(_)
trim(s) ==
    IF s = <<>> THEN s
    ELSE IF IsWhiteSpace(Head(s)) THEN trim(Tail(s))
    ELSE IF IsWhiteSpace(s[Len(s)]) THEN trim(SubSeq(s, 1, Len(s) - 1))
    ELSE s

\* String.prototype.includes
includes(hay, needle) ==
    \E i \in 0..(Len(hay) - Len(needle)) :
        SubSeq(hay, i + 1, i + Len(needle)) = needle

(***************************************************************************)
(* Dates: new Date("YYYY-MM-DD"), the local calendar fields, toISOString.  *)
(***************************************************************************)
MsPerHour == 60 * 60 * 1000
MsPerDay == 24 * MsPerHour

\* days from 1970-01-01 to the civil date y-m-d (proleptic Gregorian)
DaysFromCivil(y, m, d) ==
    LET yy  == IF m <= 2 THEN y - 1 ELSE y
        era == yy \div 400
        yoe == yy - era * 400
        mp  == IF m > 2 THEN m - 3 ELSE m + 9
        doy == (153 * mp + 2) \div 5 + d - 1
        doe == yoe * 365 + yoe \div 4 - yoe \div 100 + doy
    IN  era * 146097 + doe - 719468

\* the civil date <<y, m, d>> of the day z days after 1970-01-01
CivilFromDays(z) ==
    LET zz  == z + 719468
        era == zz \div 146097
        doe == zz - era * 146097
        yoe == (doe - doe \div 1460 + doe \div 36524 - doe \div 146096) \div 365
        doy == doe - (365 * yoe + yoe \div 4 - yoe \div 100)
        mp  == (5 * doy + 2) \div 153
        d   == doy - (153 * mp + 2) \div 5 + 1
        m   == IF mp < 10 THEN mp + 3 ELSE mp - 9
        y   == yoe + era * 400
    IN  <<IF m <= 2 THEN y + 1 ELSE y, m, d>>

\* the day the model counts milliseconds from: Sunday 2024-02-25
ModelEpoch == <<2024, 2, 25>>
EpochDays == DaysFromCivil(ModelEpoch[1], ModelEpoch[2], ModelEpoch[3])

\* new Date(s) for a date-only ISO string: 00:00 UTC of that day
ParseDate(date) == (DaysFromCivil(date[1], date[2], date[3]) - EpochDays) * MsPerDay

\* the local day (days since 1970-01-01) of time value t where local time is
\* UTC + off hours
LocalDays(t, off) == EpochDays + (t + off * MsPerHour) \div MsPerDay

\* Date.prototype.getDay: 0 is Sunday; 1970-01-01 was a Thursday
getDay(t, off) == (LocalDays(t, off) + 4) % 7

\* the time value of local midnight that begins local day n
LocalMidnight(n, off) == (n - EpochDays) * MsPerDay - off * MsPerHour

Pad2(n) == IF n < 10 THEN "0" \o ToString(n) ELSE ToString(n)
Pad3(n) == IF n < 10 THEN "00" \o ToString(n)
           ELSE IF n < 100 THEN "0" \o ToString(n) ELSE ToString(n)

\* Date.prototype.toISOString: YYYY-MM-DDTHH:mm:ss.sssZ in UTC
toISOString(t) ==
    LET c   == CivilFromDays(EpochDays + t \div MsPerDay)
        ms  == t % MsPerDay
    IN  ToString(c[1]) \o "-" \o Pad2(c[2]) \o "-" \o Pad2(c[3]) \o "T"
        \o Pad2(ms \div MsPerHour) \o ":" \o Pad2((ms % MsPerHour) \div 60000)
        \o ":" \o Pad2((ms % 60000) \div 1000) \o "." \o Pad3(ms % 1000) \o "Z"

(***************************************************************************)
(* The data: AzureUpdate records (src/unnamed/part_001) and the collection *)
(* stored under the key "azure-updates".                                   *)
(***************************************************************************)
\* the UTF-16 code units of the domain names used, which Array.prototype.sort
\* compares
CodeUnits(d) ==
    CASE d = "Compute"    -> <<67, 111, 109, 112, 117, 116, 101>>
      [] d = "Containers" -> <<67, 111, 110, 116, 97, 105, 110, 101, 114, 115>>
      [] d = "IoT"        -> <<73, 111, 84>>
      [] d = "Web"        -> <<87, 101, 98>>

DomainCategory == {"Compute", "Containers", "IoT", "Web"}
UpdateStatus == {"GA", "Preview", "Deprecated", "Retired", "New"}
ViewMode == {"grid", "timeline"}

\* useState<DomainCategory | null>(null)
Null == "null"

\* the records a collection is drawn from, without their ids
Catalog == {
    [title |-> <<"A">>, description |-> <<>>,
     domain |-> <<"Web", "Compute">>, status |-> "GA", date |-> <<2024, 3, 1>>],
    [title |-> <<"a", "SIGMA">>, description |-> <<"A", " ", "a">>,
     domain |-> <<"Web", "Containers">>, status |-> "Preview",
     date |-> <<2024, 3, 10>>],
    [title |-> <<"SIGMA">>, description |-> <<"a", "sigma">>,
     domain |-> <<"IoT", "Compute">>, status |-> "New", date |-> <<2024, 3, 9>>],
    [title |-> <<"sigma", " ">>, description |-> <<"fsigma">>,
     domain |-> <<"Containers">>, status |-> "Retired",
     date |-> <<2024, 2, 27>>] }

\* a collection: the records carry unique ids
WithIds(shapes) ==
    [i \in 1..Len(shapes) |-> [id |-> ToString(i)] @@ shapes[i]]

Collections ==
    {WithIds(shapes) : shapes \in UNION {[1..n -> Catalog] : n \in 0..MaxRecords}}

\* what the user can type into the search box
SearchTexts == {<<>>, <<" ">>, <<"a">>, <<"A">>, <<" ", "a">>,
                <<"a", "sigma">>, <<"a", "SIGMA">>}

\* the local time zones of the browser, as hours east of UTC
TimeZones == {-8, 0}

(***************************************************************************)
(* The state of App (lines 88-93) and the browser's time zone.             *)
(***************************************************************************)
VARIABLES
    updates,         \* useKV('azure-updates', [])
    searchQuery,     \* useState('')
    selectedDomain,  \* useState<DomainCategory | null>(null)
    selectedWeek,    \* useState<string>('all')
    viewMode,        \* useKV<ViewMode>('view-mode', 'grid')
    viewModeEntry,   \* what is stored under the key "view-mode", Null if nothing
    showFilters,     \* useState(true)
    tz               \* the local time zone: local time is UTC + tz hours

vars == <<updates, searchQuery, selectedDomain, selectedWeek, viewMode,
          viewModeEntry, showFilters, tz>>

\* getWeekRange without end.setHours(23, 59, 59, 999): the week ends when its
\* seventh day begins
getWeekRangeEndsAtMidnight(date, off) ==
    LET day      == getDay(date, off)
        startDay == LocalDays(date, off) - day
    IN  [start |-> LocalMidnight(startDay, off),
         end   |-> LocalMidnight(startDay + 6, off)]

(***************************************************************************)
(* getWeekRange (lines 70-85): the Sunday..Saturday week, in local time,   *)
(* of a Date.  The label is presentation and is left out.                  *)
(***************************************************************************)
getWeekRange(date, off) ==
    LET day      == getDay(date, off)
        \* start.setDate(date.getDate() - day); start.setHours(0, 0, 0, 0)
        startDay == LocalDays(date, off) - day
        start    == LocalMidnight(startDay, off)
        \* end.setDate(start.getDate() + 6); end.setHours(23, 59, 59, 999)
        end      == LocalMidnight(startDay + 6, off) + (MsPerDay - 1)
    IN  [start |-> start, end |-> end]

(***************************************************************************)
(* Derivations (lines 95-119).                                             *)
(***************************************************************************)
\* the elements of seq in order of first occurrence (Set, Map insertion order)
RECURSIVE FirstSeen(_, _)
FirstSeen(seq, seen) ==
    IF seq = <<>> THEN <<>>
    ELSE IF Head(seq) \in seen THEN FirstSeen(Tail(seq), seen)
    ELSE <<Head(seq)>> \o FirstSeen(Tail(seq), seen \cup {Head(seq)})

\* the default comparator of sort(): strings by their UTF-16 code units
RECURSIVE CodeUnitsLess(_, _)
CodeUnitsLess(a, b) ==
    IF b = <<>> THEN FALSE
    ELSE IF a = <<>> THEN TRUE
    ELSE IF Head(a) # Head(b) THEN Head(a) < Head(b)
    ELSE CodeUnitsLess(Tail(a), Tail(b))

StringLess(a, b) == CodeUnitsLess(CodeUnits(a), CodeUnits(b))

\* Array.prototype.sort() of strings (stable insertion into the sorted prefix)
SortStrings(seq) ==
    LET RECURSIVE InsertSorted(_, _)
        InsertSorted(x, sorted) ==
            IF sorted = <<>> THEN <<x>>
            ELSE IF StringLess(x, Head(sorted)) THEN <<x>> \o sorted
            ELSE <<Head(sorted)>> \o InsertSorted(x, Tail(sorted))
        RECURSIVE Sorted(_)
        Sorted(n) ==
            IF n = 0 THEN <<>> ELSE InsertSorted(seq[n], Sorted(n - 1))
    IN  Sorted(Len(seq))

\* every update's domain entries, in order
RECURSIVE DomainEntries(_)
DomainEntries(R) ==
    IF R = <<>> THEN <<>> ELSE Head(R).domain \o DomainEntries(Tail(R))

\* deriveCategories without the call of sort()
deriveCategoriesUnsorted(R) == FirstSeen(DomainEntries(R), {})

\* allDomains (lines 95-101)
deriveCategories(R) == SortStrings(FirstSeen(DomainEntries(R), {}))
allDomains == deriveCategories(updates)

\* the week of one update, with its key (lines 107-109)
WeekOf(update, off) ==
    LET week == getWeekRange(ParseDate(update.date), off)
    IN  [key |-> toISOString(week.start), start |-> week.start, end |-> week.end]

\* LaterStart with the operands of the subtraction swapped: oldest week first
EarlierStart(a, b) == a.start < b.start

\* sort((a, b) => b[1].start.getTime() - a[1].start.getTime())
LaterStart(a, b) == a.start > b.start

\* Array.prototype.sort(compare) of the weeks (stable)
SortWeeks(seq) ==
    LET RECURSIVE InsertSorted(_, _)
        InsertSorted(x, sorted) ==
            IF sorted = <<>> THEN <<x>>
            ELSE IF LaterStart(x, Head(sorted)) THEN <<x>> \o sorted
            ELSE <<Head(sorted)>> \o InsertSorted(x, Tail(sorted))
        RECURSIVE Sorted(_)
        Sorted(n) ==
            IF n = 0 THEN <<>> ELSE InsertSorted(seq[n], Sorted(n - 1))
    IN  Sorted(Len(seq))

\* availableWeeks (lines 103-119)
deriveWeekBuckets(R, off) ==
    SortWeeks(FirstSeen([i \in 1..Len(R) |-> WeekOf(R[i], off)], {}))
availableWeeks == deriveWeekBuckets(updates, tz)

(***************************************************************************)
(* The filter (lines 121-140).                                             *)
(***************************************************************************)
\* matchesSearch that looks at the title only
matchesSearchTitleOnly(update, query) ==
    \/ trim(query) = <<>>
    \/ includes(toLowerCase(update.title), toLowerCase(query))

matchesSearch(update, query) ==
    \/ trim(query) = <<>>
    \/ includes(toLowerCase(update.title), toLowerCase(query))
    \/ includes(toLowerCase(update.description), toLowerCase(query))

\* matchesDomain that compares the first domain of the update only
matchesFirstDomain(update, domain) ==
    \/ domain = Null
    \/ update.domain[1] = domain

\* matchesDomain without the test for no selection
matchesDomainNoNull(update, domain) ==
    \E i \in 1..Len(update.domain) : update.domain[i] = domain

matchesDomain(update, domain) ==
    \/ domain = Null
    \/ \E i \in 1..Len(update.domain) : update.domain[i] = domain

\* availableWeeks.find(w => w.key === selectedWeek): the places that match
FindWeek(weeks, key) == {i \in 1..Len(weeks) : weeks[i].key = key}

matchesWeek(update, week, weeks) ==
    IF week # "all"
    THEN LET updateDate == ParseDate(update.date)
             found      == FindWeek(weeks, week)
         IN  IF found # {}
             THEN LET selectedWeekData ==
                          weeks[CHOOSE i \in found : \A j \in found : i <= j]
                  IN  /\ updateDate >= selectedWeekData.start
                      /\ updateDate <= selectedWeekData.end
             ELSE TRUE
    ELSE TRUE

\* matches with the search and the domain axis joined by "or"
matchesSearchOrDomain(update, query, domain, week, weeks) ==
    /\ matchesSearch(update, query) \/ matchesDomain(update, domain)
    /\ matchesWeek(update, week, weeks)

matches(update, query, domain, week, weeks) ==
    /\ matchesSearch(update, query)
    /\ matchesDomain(update, domain)
    /\ matchesWeek(update, week, weeks)

\* filter that collects the matching records last-to-first
filterReversed(R, query, domain, week, off) ==
    LET weeks == deriveWeekBuckets(R, off)
        Keep(update) == matches(update, query, domain, week, weeks)
        kept == SelectSeq(R, Keep)
    IN  [i \in 1..Len(kept) |-> kept[Len(kept) + 1 - i]]

\* Array.prototype.filter
filter(R, query, domain, week, off) ==
    LET weeks == deriveWeekBuckets(R, off)
        Keep(update) == matches(update, query, domain, week, weeks)
    IN  SelectSeq(R, Keep)

filteredUpdates == filter(updates, searchQuery, selectedDomain, selectedWeek, tz)

\* line 159
hasActiveFilters ==
    \/ trim(searchQuery) # <<>>
    \/ selectedDomain # Null
    \/ selectedWeek # "all"

\* activeFilterCount that counts the search text after trim()
activeFilterCountTrimmed ==
    (IF trim(searchQuery) # <<>> THEN 1 ELSE 0)
        + (IF selectedDomain # Null THEN 1 ELSE 0)
        + (IF selectedWeek # "all" THEN 1 ELSE 0)

\* the number in the badge of the Filters button (line 245); a string is
\* truthy when it is not empty
activeFilterCount ==
    (IF searchQuery # <<>> THEN 1 ELSE 0)
        + (IF selectedDomain # Null THEN 1 ELSE 0)
        + (IF selectedWeek # "all" THEN 1 ELSE 0)

(***************************************************************************)
(* The timeline's month groups (lines 142-151).                            *)
(***************************************************************************)
\* the month names of the en-US locale
MonthName(m) ==
    CASE m = 1 -> "January"  [] m = 2 -> "February" [] m = 3 -> "March"
      [] m = 4 -> "April"    [] m = 5 -> "May"      [] m = 6 -> "June"
      [] m = 7 -> "July"     [] m = 8 -> "August"   [] m = 9 -> "September"
      [] m = 10 -> "October" [] m = 11 -> "November" [] m = 12 -> "December"

\* date.toLocaleDateString('en-US', { year: 'numeric', month: 'long' }): the
\* month and the year of the local day of time value t
toLocaleDateString(t, off) ==
    LET c == CivilFromDays(LocalDays(t, off))
    IN  MonthName(c[2]) \o " " \o ToString(c[1])

\* monthKey of one update (lines 145-146)
monthKey(update, off) == toLocaleDateString(ParseDate(update.date), off)

\* the places of the entry for key in an object's entries
EntryOf(groups, key) == {i \in 1..Len(groups) : groups[i].month = key}

\* PushUpdate that begins the group anew at every update
PushUpdateAnew(groups, update, off) ==
    LET key == monthKey(update, off)
        at  == EntryOf(groups, key)
    IN  IF at = {}
        THEN Append(groups, [month |-> key, updates |-> <<update>>])
        ELSE [i \in 1..Len(groups) |->
                 IF i \in at THEN [groups[i] EXCEPT !.updates = <<update>>]
                 ELSE groups[i]]

\* PushUpdate that puts a new group before the others
PushUpdateInFront(groups, update, off) ==
    LET key == monthKey(update, off)
        at  == EntryOf(groups, key)
    IN  IF at = {}
        THEN <<[month |-> key, updates |-> <<update>>]>> \o groups
        ELSE [i \in 1..Len(groups) |->
                 IF i \in at THEN [groups[i] EXCEPT !.updates = Append(@, update)]
                 ELSE groups[i]]

\* one turn of the forEach (lines 144-149): groups is the object as its
\* entries in insertion order, which is the order of Object.entries
PushUpdate(groups, update, off) ==
    LET key == monthKey(update, off)
        at  == EntryOf(groups, key)
    IN  IF at = {}
        \* if (!groups[monthKey]) groups[monthKey] = []; then push
        THEN Append(groups, [month |-> key, updates |-> <<update>>])
        ELSE [i \in 1..Len(groups) |->
                 IF i \in at THEN [groups[i] EXCEPT !.updates = Append(@, update)]
                 ELSE groups[i]]

\* groupedByMonth (lines 142-151) of a list of updates
groupByMonth(F, off) ==
    LET RECURSIVE Pushed(_)
        Pushed(n) ==
            IF n = 0 THEN <<>> ELSE PushUpdate(Pushed(n - 1), F[n], off)
    IN  Pushed(Len(F))

groupedByMonth == groupByMonth(filteredUpdates, tz)

(***************************************************************************)
(* The statistics (lines 161-168).                                         *)
(***************************************************************************)
\* statistics computed from the filtered updates
statisticsOfFiltered ==
    LET IsGA(u)      == u.status = "GA"
        IsPreview(u) == u.status = "Preview"
        IsNew(u)     == u.status = "New"
    IN  [total         |-> Len(filteredUpdates),
         launched      |-> Len(SelectSeq(filteredUpdates, IsGA)),
         preview       |-> Len(SelectSeq(filteredUpdates, IsPreview)),
         inDevelopment |-> Len(SelectSeq(filteredUpdates, IsNew))]

statistics ==
    LET IsGA(u)      == u.status = "GA"
        IsPreview(u) == u.status = "Preview"
        IsNew(u)     == u.status = "New"
    IN  [total         |-> Len(updates),
         launched      |-> Len(SelectSeq(updates, IsGA)),
         preview       |-> Len(SelectSeq(updates, IsPreview)),
         inDevelopment |-> Len(SelectSeq(updates, IsNew))]

(***************************************************************************)
(* The earlier App of the same file (lines 648-919), which has no week.    *)
(***************************************************************************)
\* the earlier filter that looks at the search text only
matchesEarlierSearchOnly(update, query, domain) ==
    \/ trim(query) = <<>>
    \/ includes(toLowerCase(update.title), toLowerCase(query))
    \/ includes(toLowerCase(update.description), toLowerCase(query))

\* the callback of the earlier filter (lines 665-672); no domain name is the
\* empty string, so !selectedDomain is true of null only
matchesEarlier(update, query, domain) ==
    /\ \/ trim(query) = <<>>
       \/ includes(toLowerCase(update.title), toLowerCase(query))
       \/ includes(toLowerCase(update.description), toLowerCase(query))
    /\ \/ domain = Null
       \/ \E i \in 1..Len(update.domain) : update.domain[i] = domain

\* filteredUpdates of the earlier App (lines 663-673)
filteredUpdatesEarlier ==
    LET Keep(update) == matchesEarlier(update, searchQuery, selectedDomain)
    IN  SelectSeq(updates, Keep)

\* groupedByMonth of the earlier App (lines 675-685), the same code
groupedByMonthEarlier == groupByMonth(filteredUpdatesEarlier, tz)

\* hasActiveFilters of the earlier App (line 691)
hasActiveFiltersEarlier ==
    \/ trim(searchQuery) # <<>>
    \/ selectedDomain # Null

(***************************************************************************)
(* The main area (lines 449-503).                                          *)
(***************************************************************************)
\* emptyStateMessage that tells the two messages apart by the collection
emptyStateMessageByCollection ==
    IF Len(filteredUpdates) = 0
    THEN IF updates # <<>>
         THEN "Try adjusting your filters or search query"
         ELSE "No updates available at the moment"
    ELSE Null

\* the text of the "No updates found" card (lines 449-460), Null without card
emptyStateMessage ==
    IF Len(filteredUpdates) = 0
    THEN IF hasActiveFilters
         THEN "Try adjusting your filters or search query"
         ELSE "No updates available at the moment"
    ELSE Null

\* the card has the Clear Filters button (lines 461-466)
clearFiltersOffered == Len(filteredUpdates) = 0 /\ hasActiveFilters

\* the cards of the grid view (lines 474-476)
gridCards == filteredUpdates

\* the cards of the timeline view, group after group (lines 481-499)
RECURSIVE CardsOf(_)
CardsOf(groups) ==
    IF groups = <<>> THEN <<>> ELSE Head(groups).updates \o CardsOf(Tail(groups))

timelineCards == CardsOf(groupedByMonth)

(***************************************************************************)
(* The handlers.                                                           *)
(***************************************************************************)
Init ==
    /\ updates = <<>>
    /\ searchQuery = <<>>
    /\ selectedDomain = Null
    /\ selectedWeek = "all"
    /\ viewModeEntry = Null
    /\ viewMode = "grid"
    /\ showFilters = TRUE
    /\ tz \in TimeZones

\* the value stored under "azure-updates" arrives or is replaced (line 88)
UpdatesChange ==
    /\ \E R \in Collections : updates' = R
    /\ UNCHANGED <<searchQuery, selectedDomain, selectedWeek, viewMode,
                   showFilters, viewModeEntry, tz>>

\* onChange of the search box (line 223)
SetSearchQuery ==
    /\ \E s \in SearchTexts : searchQuery' = s
    /\ UNCHANGED <<updates, selectedDomain, selectedWeek, viewMode, showFilters, viewModeEntry, tz>>

\* the X button of the search box (lines 226-233)
ClearSearch ==
    /\ searchQuery # <<>>
    /\ searchQuery' = <<>>
    /\ UNCHANGED <<updates, selectedDomain, selectedWeek, viewMode, showFilters, viewModeEntry, tz>>

\* SetViewMode that stores nothing
SetViewModeUnsaved ==
    /\ \E m \in ViewMode : viewMode' = m
    /\ UNCHANGED <<updates, searchQuery, selectedDomain, selectedWeek,
                   showFilters, viewModeEntry, tz>>

\* SetViewMode that also empties the search box
SetViewModeNewSearch ==
    /\ \E m \in ViewMode : viewMode' = m /\ viewModeEntry' = m
    /\ searchQuery' = <<>>
    /\ UNCHANGED <<updates, selectedDomain, selectedWeek, showFilters, tz>>

\* the Grid and Timeline buttons (lines 191-208, 432-445): the setter of useKV
\* sets the value and stores it
SetViewMode ==
    /\ \E m \in ViewMode : viewMode' = m /\ viewModeEntry' = m
    /\ UNCHANGED <<updates, searchQuery, selectedDomain, selectedWeek,
                   showFilters, tz>>

\* ToggleFilters that also clears the criteria
ToggleFiltersClears ==
    /\ showFilters' = ~showFilters
    /\ searchQuery' = <<>>
    /\ selectedDomain' = Null
    /\ selectedWeek' = "all"
    /\ UNCHANGED <<updates, viewMode, viewModeEntry, tz>>

\* the Filters button (line 238)
ToggleFilters ==
    /\ showFilters' = ~showFilters
    /\ UNCHANGED <<updates, searchQuery, selectedDomain, selectedWeek, viewMode, viewModeEntry, tz>>

\* the week Select of the filters panel (lines 371-383)
SelectWeek ==
    /\ showFilters
    /\ \E k \in {"all"} \cup {availableWeeks[i].key : i \in 1..Len(availableWeeks)} :
           selectedWeek' = k
    /\ UNCHANGED <<updates, searchQuery, selectedDomain, viewMode, showFilters, viewModeEntry, tz>>

\* onClickDomain that selects the clicked domain, selected or not
onClickDomainNoToggle(domain) == domain

\* what onClick of the button of a domain passes to setSelectedDomain (lines
\* 396-402)
onClickDomain(domain) ==
    LET isActive == selectedDomain = domain
    IN  IF isActive THEN Null ELSE domain

\* a domain button of the filters panel (lines 394-409)
ClickDomain ==
    /\ showFilters
    /\ \E i \in 1..Len(allDomains) : selectedDomain' = onClickDomain(allDomains[i])
    /\ UNCHANGED <<updates, searchQuery, selectedWeek, viewMode, showFilters, viewModeEntry, tz>>

\* handleClearFilters without the call of setSelectedWeek
handleClearFiltersKeepsWeek ==
    /\ hasActiveFilters
    /\ showFilters \/ Len(filteredUpdates) = 0
    /\ searchQuery' = <<>>
    /\ selectedDomain' = Null
    /\ UNCHANGED <<updates, selectedWeek, viewMode, showFilters, viewModeEntry, tz>>

\* handleClearFilters (lines 153-157), from Clear All (lines 352-362) or from
\* Clear Filters of the empty state (lines 462-467)
handleClearFilters ==
    /\ hasActiveFilters
    /\ showFilters \/ Len(filteredUpdates) = 0
    /\ searchQuery' = <<>>
    /\ selectedDomain' = Null
    /\ selectedWeek' = "all"
    /\ UNCHANGED <<updates, viewMode, showFilters, viewModeEntry, tz>>

\* the page is loaded anew (lines 87-93): useState begins with its initial
\* value, useKV with the stored value or, if there is none, its default
NewSession ==
    /\ searchQuery' = <<>>
    /\ selectedDomain' = Null
    /\ selectedWeek' = "all"
    /\ showFilters' = TRUE
    /\ viewMode' = IF viewModeEntry = Null THEN "grid" ELSE viewModeEntry
    /\ UNCHANGED <<updates, viewModeEntry, tz>>

Next ==
    \/ NewSession
    \/ UpdatesChange
    \/ SetSearchQuery
    \/ ClearSearch
    \/ SetViewMode
    \/ ToggleFilters
    \/ SelectWeek
    \/ ClickDomain
    \/ handleClearFilters

Spec == Init /\ [][Next]_vars

\* the steps that change what the derivations read, the collection and the
\* three criteria, with the filters panel open as it is at first
FilterNext ==
    \/ UpdatesChange
    \/ SetSearchQuery
    \/ ClearSearch
    \/ SelectWeek
    \/ ClickDomain
    \/ handleClearFilters

FilterSpec == Init /\ [][FilterNext]_vars

(***************************************************************************)
(* Notions the properties are stated in.                                   *)
(***************************************************************************)
Ids(seq) == {seq[i].id : i \in 1..Len(seq)}
Range(seq) == {seq[i] : i \in 1..Len(seq)}

\* x occurs in y as a contiguous piece
IsSubstring(x, y) ==
    \E from \in 1..(Len(y) + 1) : \E to \in (from - 1)..Len(y) :
        SubSeq(y, from, to) = x

OnlyWhiteSpace(s) == \A i \in 1..Len(s) : s[i] = " "

\* a is b with some elements left out
RECURSIVE IsSubsequence(_, _)
IsSubsequence(a, b) ==
    IF a = <<>> THEN TRUE
    ELSE IF b = <<>> THEN FALSE
    ELSE IF Head(a) = Head(b) THEN IsSubsequence(Tail(a), Tail(b))
    ELSE IsSubsequence(a, Tail(b))

\* the filter with one axis constrained, the other two at their defaults
TextAxis == filter(updates, searchQuery, Null, "all", tz)
DomainAxis == filter(updates, <<>>, selectedDomain, "all", tz)
WeekAxis == filter(updates, <<>>, Null, selectedWeek, tz)

\* the text occurs, ignoring case, in the title or the description
TextOccurs(update, s) ==
    \/ IsSubstring(toLowerCase(s), toLowerCase(update.title))
    \/ IsSubstring(toLowerCase(s), toLowerCase(update.description))

(***************************************************************************)
(* C1: the text axis.                                                      *)
(***************************************************************************)
\* C1 as stated: a record passes the text criterion iff the search text is the
\* empty string or occurs, ignoring case, in its title or its description.
C1_TextAxisAsStated ==
    \A i \in 1..Len(updates) :
        updates[i].id \in Ids(TextAxis)
            <=> (searchQuery = <<>> \/ TextOccurs(updates[i], searchQuery))

\* C1 as amended: a record passes the text criterion iff the search text is
\* empty or made only of white space, or occurs (untrimmed), ignoring case, in
\* its title or its description.
C1_TextAxis ==
    \A i \in 1..Len(updates) :
        updates[i].id \in Ids(TextAxis)
            <=> (OnlyWhiteSpace(searchQuery) \/ TextOccurs(updates[i], searchQuery))

\* a search text of white space passes a record that does not hold it, while
\* the collection also holds a record that a text search would exclude
C1_Witness ==
    /\ searchQuery = <<" ">>
    /\ Len(updates) = 2
    /\ ~TextOccurs(updates[1], searchQuery)
    /\ TextOccurs(updates[2], searchQuery)
    /\ Ids(TextAxis) = {"1", "2"}

(***************************************************************************)
(* C2: the week axis.                                                      *)
(***************************************************************************)
\* C2 as stated: with selectedWeek "all" every record passes the week
\* criterion; otherwise a record passes iff its date lies in [start, end] of
\* the derived bucket whose key is selectedWeek, so that a key of no derived
\* bucket lets no record pass.
C2_WeekAxisAsStated ==
    \A i \in 1..Len(updates) :
        updates[i].id \in Ids(WeekAxis)
            <=> \/ selectedWeek = "all"
                \/ \E b \in Range(availableWeeks) :
                       /\ b.key = selectedWeek
                       /\ b.start <= ParseDate(updates[i].date)
                       /\ ParseDate(updates[i].date) <= b.end

\* where the code agrees with C2: selectedWeek is "all" or the key of a
\* derived bucket
WeekAxisWithDerivedKey ==
    (selectedWeek = "all" \/ FindWeek(availableWeeks, selectedWeek) # {})
        => C2_WeekAxisAsStated

(***************************************************************************)
(* C3: the axes are joined by "and".                                       *)
(***************************************************************************)
\* C3: the filtered records are exactly those that pass each of the three
\* single-axis filters, and constraining an axis never adds a record.
C3_Conjunctive ==
    /\ Ids(filteredUpdates) = Ids(TextAxis) \cap Ids(DomainAxis) \cap Ids(WeekAxis)
    /\ Ids(filteredUpdates) \subseteq
           Ids(filter(updates, <<>>, selectedDomain, selectedWeek, tz))
    /\ Ids(filteredUpdates) \subseteq
           Ids(filter(updates, searchQuery, Null, selectedWeek, tz))
    /\ Ids(filteredUpdates) \subseteq
           Ids(filter(updates, searchQuery, selectedDomain, "all", tz))

\* all three axes are constrained, each alone keeps a record, together none
C3_Witness ==
    /\ searchQuery # <<>> /\ selectedDomain # Null /\ selectedWeek # "all"
    /\ FindWeek(availableWeeks, selectedWeek) # {}
    /\ Len(updates) = 2
    /\ Ids(TextAxis) = {"1"}
    /\ Ids(DomainAxis) = {"2"}
    /\ Ids(WeekAxis) = {"1"}
    /\ filteredUpdates = <<>>

(***************************************************************************)
(* C4: the domain axis.                                                    *)
(***************************************************************************)
\* C4: a record passes the category criterion iff no category is selected or
\* the selected category is one of the record's categories.
C4_DomainAxis ==
    \A i \in 1..Len(updates) :
        updates[i].id \in Ids(DomainAxis)
            <=> (selectedDomain = Null \/ selectedDomain \in Range(updates[i].domain))

\* the selected category is the second category of a kept record, and another
\* record is left out
C4_Witness ==
    /\ selectedDomain # Null
    /\ Len(updates) = 2
    /\ Len(updates[1].domain) = 2
    /\ updates[1].domain[2] = selectedDomain
    /\ Ids(DomainAxis) = {"1"}

(***************************************************************************)
(* C5: the default criteria keep everything.                               *)
(***************************************************************************)
\* C5: with searchText "", no category and weekKey "all", the filter returns
\* the collection itself: the same records in the same order.
C5_DefaultIsIdentity ==
    /\ filter(updates, <<>>, Null, "all", tz) = updates
    /\ (searchQuery = <<>> /\ selectedDomain = Null /\ selectedWeek = "all")
           => filteredUpdates = updates

\* the criteria are the default ones and the collection holds two records
C5_Witness ==
    /\ searchQuery = <<>> /\ selectedDomain = Null /\ selectedWeek = "all"
    /\ Len(updates) = 2
    /\ Len(filteredUpdates) = 2

(***************************************************************************)
(* C6: the result is a subsequence.                                        *)
(***************************************************************************)
\* C6: the filtered records are records of the collection, none more often
\* than there, in the collection's order.
C6_Subsequence ==
    /\ IsSubsequence(filteredUpdates, updates)
    /\ Cardinality(Ids(filteredUpdates)) = Len(filteredUpdates)

\* filters are set and two records are kept
C6_Witness ==
    /\ hasActiveFilters
    /\ searchQuery # <<>> /\ selectedDomain # Null
    /\ Len(filteredUpdates) = 2

(***************************************************************************)
(* C7: the search ignores case.                                            *)
(***************************************************************************)
\* the simple lower-case mapping of one character (UnicodeData.txt)
SimpleLower(c) ==
    CASE c = "A" -> "a"
      [] c = "SIGMA" -> "sigma"
      [] OTHER -> c

\* s1 and s2 differ only in the case of their letters
SameButCase(s1, s2) ==
    /\ Len(s1) = Len(s2)
    /\ \A i \in 1..Len(s1) : SimpleLower(s1[i]) = SimpleLower(s2[i])

\* C7 as stated: two search texts that differ only in letter case give the
\* same filtered records.
C7_CaseInsensitiveAsStated ==
    \A s \in SearchTexts :
        SameButCase(s, searchQuery) =>
            filter(updates, s, selectedDomain, selectedWeek, tz) = filteredUpdates

\* where the code agrees with C7: search texts without capital sigma
CaseInsensitiveWithoutSigma ==
    \A s \in SearchTexts :
        /\ SameButCase(s, searchQuery)
        /\ "SIGMA" \notin Range(s) \cup Range(searchQuery)
        => filter(updates, s, selectedDomain, selectedWeek, tz) = filteredUpdates

(***************************************************************************)
(* C8: the derived categories.                                             *)
(***************************************************************************)
\* the place of a domain name in the lexicographic order of the names
DomainRank(d) ==
    CASE d = "Compute" -> 1
      [] d = "Containers" -> 2
      [] d = "IoT" -> 3
      [] d = "Web" -> 4

\* C8: the derived categories hold no duplicate, are sorted ascending, and are
\* exactly the categories carried by some record; none for no record.
C8_Categories ==
    /\ \A i, j \in 1..Len(allDomains) :
           i < j => DomainRank(allDomains[i]) < DomainRank(allDomains[j])
    /\ Range(allDomains) = UNION {Range(updates[i].domain) : i \in 1..Len(updates)}
    /\ updates = <<>> => allDomains = <<>>

\* two records share a category and carry three in all, first seen in an order
\* that is not the sorted one
C8_Witness ==
    /\ Len(updates) = 2
    /\ Range(updates[1].domain) \cap Range(updates[2].domain) # {}
    /\ Len(allDomains) = 3
    /\ allDomains # deriveCategoriesUnsorted(updates)

(***************************************************************************)
(* C9: the week buckets.                                                   *)
(***************************************************************************)
\* the time of day, in local time, of time value t
LocalTimeOfDay(t) == (t + tz * MsPerHour) % MsPerDay

\* C9: every bucket runs from a Sunday 00:00:00.000 to the Saturday
\* 23:59:59.999 six days later (local time), no two buckets overlap or share a
\* start, and the buckets are in strictly descending order of start.
C9_WeekBuckets ==
    /\ \A b \in Range(availableWeeks) :
           /\ getDay(b.start, tz) = 0 /\ LocalTimeOfDay(b.start) = 0
           /\ getDay(b.end, tz) = 6 /\ LocalTimeOfDay(b.end) = MsPerDay - 1
           /\ LocalDays(b.end, tz) = LocalDays(b.start, tz) + 6
    /\ \A i, j \in 1..Len(availableWeeks) :
           i < j => availableWeeks[j].end < availableWeeks[i].start

\* two buckets, derived from records stored oldest first
C9_Witness ==
    /\ Len(updates) = 2
    /\ ParseDate(updates[1].date) < ParseDate(updates[2].date)
    /\ Len(availableWeeks) = 2
    /\ tz # 0

(***************************************************************************)
(* C10: every record has its bucket.                                       *)
(***************************************************************************)
\* the buckets whose [start, end] holds the date of the update
BucketsOf(update) ==
    {i \in 1..Len(availableWeeks) :
        /\ availableWeeks[i].start <= ParseDate(update.date)
        /\ ParseDate(update.date) <= availableWeeks[i].end}

\* the Sunday on or before the calendar date, as days since 1970-01-01
SundayOf(date) ==
    LET n == DaysFromCivil(date[1], date[2], date[3])
    IN  n - ((n + 4) % 7)

\* C10 as stated: exactly one bucket holds a record's date, and it is the
\* Sunday..Saturday week of the record's calendar date.
C10_CoverageAsStated ==
    \A i \in 1..Len(updates) :
        /\ Cardinality(BucketsOf(updates[i])) = 1
        /\ \A k \in BucketsOf(updates[i]) :
               LocalDays(availableWeeks[k].start, tz) = SundayOf(updates[i].date)

\* where the code agrees with C10: exactly one bucket holds the record's time
\* value, and for local time UTC it is the week of the calendar date
CoverageInUTC ==
    /\ \A i \in 1..Len(updates) : Cardinality(BucketsOf(updates[i])) = 1
    /\ tz = 0 => C10_CoverageAsStated

(***************************************************************************)
(* C11: the month groups hold the filtered records, each once.             *)
(***************************************************************************)
\* the sizes of the groups, added up
RECURSIVE SumOfSizes(_)
SumOfSizes(groups) ==
    IF groups = <<>> THEN 0
    ELSE Len(Head(groups).updates) + SumOfSizes(Tail(groups))

\* the places <<group, place in the group>> where the update is listed
PlacesOf(update, groups) ==
    {p \in UNION {{<<g, k>> : k \in 1..Len(groups[g].updates)} : g \in 1..Len(groups)} :
        groups[p[1]].updates[p[2]] = update}

\* C11: every filtered record is listed in exactly one month group, once; no
\* group lists a record that is not a filtered one; the sizes of the groups
\* add up to the number of filtered records; no group is empty.
C11_GroupingComplete ==
    /\ \A i \in 1..Len(filteredUpdates) :
           Cardinality(PlacesOf(filteredUpdates[i], groupedByMonth)) = 1
    /\ \A g \in 1..Len(groupedByMonth) :
           /\ Range(groupedByMonth[g].updates) \subseteq Range(filteredUpdates)
           /\ groupedByMonth[g].updates # <<>>
    /\ SumOfSizes(groupedByMonth) = Len(filteredUpdates)

\* a search text keeps two records of one month and they form one group
C11_Witness ==
    /\ trim(searchQuery) # <<>>
    /\ Len(filteredUpdates) = 2
    /\ Len(groupedByMonth) = 1
    /\ Len(groupedByMonth[1].updates) = 2

(***************************************************************************)
(* C12: the groups are the calendar months of the records' dates.          *)
(***************************************************************************)
\* the label of the calendar month and year a date string names
CalendarMonth(date) == MonthName(date[2]) \o " " \o ToString(date[1])

\* C12 as stated: every record is listed under the label of the calendar month
\* and year of its date, so two filtered records are in one group iff their
\* dates have the same month and year.
C12_MonthPartitionAsStated ==
    /\ \A g \in 1..Len(groupedByMonth) :
           \A k \in 1..Len(groupedByMonth[g].updates) :
               groupedByMonth[g].month = CalendarMonth(groupedByMonth[g].updates[k].date)
    /\ \A i, j \in 1..Len(filteredUpdates) :
           (\E g \in 1..Len(groupedByMonth) :
                {filteredUpdates[i], filteredUpdates[j]}
                    \subseteq Range(groupedByMonth[g].updates))
           <=> /\ filteredUpdates[i].date[1] = filteredUpdates[j].date[1]
               /\ filteredUpdates[i].date[2] = filteredUpdates[j].date[2]

\* where the code agrees with C12: local time UTC
MonthPartitionInUTC == tz = 0 => C12_MonthPartitionAsStated

(***************************************************************************)
(* C13: the order of the groups and inside them.                           *)
(***************************************************************************)
\* the first place in seq of an update of the month
FirstPlace(month, seq) ==
    CHOOSE i \in 1..Len(seq) :
        /\ monthKey(seq[i], tz) = month
        /\ \A j \in 1..(i - 1) : monthKey(seq[j], tz) # month

C14_ClearIsAtomic ==
    ~ENABLED (/\ handleClearFilters
              /\ ~(/\ searchQuery' = <<>>
                   /\ selectedDomain' = Null
                   /\ selectedWeek' = "all"
                   /\ activeFilterCount' = 0))

\* all three criteria are set and the filters can be cleared
C14_Witness ==
    /\ searchQuery # <<>> /\ selectedDomain # Null /\ selectedWeek # "all"
    /\ activeFilterCount = 3
    /\ ENABLED handleClearFilters

(***************************************************************************)
(* C15: the active filter count.                                           *)
(***************************************************************************)
\* the criteria that are not at their default
NonDefault ==
    {c \in {"searchText", "category", "weekKey"} :
        \/ c = "searchText" /\ Len(searchQuery) > 0
        \/ c = "category" /\ selectedDomain \in DomainCategory
        \/ c = "weekKey" /\ selectedWeek # "all"}

\* C15: the active filter count is the number of criteria that are set (search
\* text not empty, a category selected, week not "all"); it lies between 0 and
\* 3 and is 0 exactly when the criteria are the default ones.
C15_ActiveFilterCount ==
    /\ activeFilterCount = Cardinality(NonDefault)
    /\ activeFilterCount \in 0..3
    /\ activeFilterCount = 0
           <=> (searchQuery = <<>> /\ selectedDomain = Null /\ selectedWeek = "all")

\* a search text of one blank counts as a filter, with the two others: 3
C15_Witness ==
    /\ searchQuery = <<" ">>
    /\ selectedDomain # Null
    /\ selectedWeek # "all"
    /\ activeFilterCount = 3

(***************************************************************************)
(* C16: the selected week is a derived one.                                *)
(***************************************************************************)
\* C16 as stated: in every reachable state the selected week is "all" or the
\* key of a bucket derived from the current collection.
C16_WeekKeyDerivedAsStated ==
    \/ selectedWeek = "all"
    \/ \E b \in Range(deriveWeekBuckets(updates, tz)) : b.key = selectedWeek

\* where the code agrees with C16: a step that changes the selected week and
\* leaves the collection as it is sets it to "all" or to a derived key
WeekKeyDerivedWhenSelected ==
    [][(selectedWeek' # selectedWeek /\ UNCHANGED updates)
           => \/ selectedWeek' = "all"
              \/ \E b \in Range(availableWeeks) : b.key = selectedWeek']_vars

(***************************************************************************)
(* C17: the view mode and its stored preference.                           *)
(***************************************************************************)
\* C17: the view mode is grid or timeline, and grid while nothing is stored;
\* choosing a mode sets it and stores it under "view-mode", nothing else
\* changes what is stored, and a new session begins in the stored mode, which
\* is the mode the session before ended in.
C17_ViewPreference ==
    /\ [](/\ viewMode \in ViewMode
          /\ viewModeEntry = Null => viewMode = "grid"
          /\ viewModeEntry # Null => viewModeEntry = viewMode)
    /\ [][SetViewMode => (viewMode' \in ViewMode /\ viewModeEntry' = viewMode')]_vars
    /\ [][viewModeEntry' # viewModeEntry => SetViewMode]_vars
    /\ [][NewSession => viewMode' = viewMode]_vars

\* timeline has been chosen and stored, and a new session can begin
C17_Witness ==
    /\ viewModeEntry = "timeline"
    /\ viewMode = "timeline"
    /\ ENABLED NewSession

(***************************************************************************)
(* C18: the empty state.                                                   *)
(***************************************************************************)
\* C18 as stated: with no record kept, the card says "filters too narrow" and
\* offers Clear Filters when the collection holds records, and says "no data"
\* without Clear Filters when the collection is empty; with a record kept
\* there is no card.
C18_EmptyStateAsStated ==
    /\ (updates # <<>> /\ filteredUpdates = <<>>) =>
           /\ emptyStateMessage = "Try adjusting your filters or search query"
           /\ clearFiltersOffered
    /\ updates = <<>> =>
           /\ emptyStateMessage = "No updates available at the moment"
           /\ ~clearFiltersOffered
    /\ filteredUpdates # <<>> => (emptyStateMessage = Null /\ ~clearFiltersOffered)

\* C18 as amended: with no record kept, the card says "filters too narrow" and
\* offers Clear Filters when a filter is active, be the collection empty or
\* not, and says "no data" without Clear Filters when no filter is active,
\* which is only so for an empty collection; with a record kept there is no
\* card.
C18_EmptyState ==
    /\ (filteredUpdates = <<>> /\ hasActiveFilters) =>
           /\ emptyStateMessage = "Try adjusting your filters or search query"
           /\ clearFiltersOffered
    /\ (filteredUpdates = <<>> /\ ~hasActiveFilters) =>
           /\ emptyStateMessage = "No updates available at the moment"
           /\ ~clearFiltersOffered
           /\ updates = <<>>
    /\ (updates # <<>> /\ filteredUpdates = <<>>) => hasActiveFilters
    /\ filteredUpdates # <<>> => (emptyStateMessage = Null /\ ~clearFiltersOffered)

\* the collection is empty, a search text is set, and the card says "filters
\* too narrow" and offers Clear Filters
C18_Witness ==
    /\ updates = <<>>
    /\ trim(searchQuery) # <<>>
    /\ emptyStateMessage = "Try adjusting your filters or search query"
    /\ clearFiltersOffered

(***************************************************************************)
(* C19: the two views list the same records.                               *)
(***************************************************************************)
\* C19: choosing a view mode leaves the collection and the three criteria as
\* they are, and the timeline's groups list exactly the records of the grid,
\* each as often as there.
C19_SameData ==
    /\ [][SetViewMode =>
              UNCHANGED <<updates, searchQuery, selectedDomain, selectedWeek>>]_vars
    /\ [](/\ Range(timelineCards) = Range(gridCards)
          /\ Len(timelineCards) = Len(gridCards))

\* timeline has been chosen with filters set, and it lists two groups
C19_Witness ==
    /\ viewMode = "timeline"
    /\ viewModeEntry = "timeline"
    /\ hasActiveFilters
    /\ Len(groupedByMonth) = 2
    /\ Len(timelineCards) = 2

(***************************************************************************)
(* C20: hiding outdated updates.                                           *)
(***************************************************************************)
Outdated(update) == update.status \in {"Retired", "Deprecated"}

\* C20 as stated: whenever an outdated record is listed, some step that
\* leaves the collection and the three criteria as they are ends with no
\* outdated record listed.
C20_HideOutdatedAsStated ==
    (\E i \in 1..Len(filteredUpdates) : Outdated(filteredUpdates[i]))
        => ENABLED (/\ Next
                    /\ UNCHANGED <<updates, searchQuery, selectedDomain, selectedWeek>>
                    /\ \A i \in 1..Len(filteredUpdates') :
                           ~Outdated(filteredUpdates'[i]))

(***************************************************************************)
(* C21: one category at a time, a second click takes it back.              *)
(***************************************************************************)
\* C21: the selection is no category or one category; the click on an
\* offered category that is not selected selects it, whatever was selected,
\* the click on the selected one selects none; every step of a click ends
\* with what the click on some offered category selects and leaves the search
\* text and the week as they are.
C21_SingleSelectToggle ==
    /\ [](/\ selectedDomain \in DomainCategory \cup {Null}
          /\ \A d \in Range(allDomains) :
                 /\ d # selectedDomain => onClickDomain(d) = d
                 /\ d = selectedDomain => onClickDomain(d) = Null)
    /\ [][ClickDomain =>
              /\ \E d \in Range(allDomains) : selectedDomain' = onClickDomain(d)
              /\ searchQuery' = searchQuery
              /\ selectedWeek' = selectedWeek]_vars

\* a category is selected, others are offered, and a search text and a week
\* are set
C21_Witness ==
    /\ showFilters
    /\ selectedDomain \in Range(allDomains)
    /\ Len(allDomains) >= 3
    /\ searchQuery # <<>>
    /\ selectedWeek # "all"

(***************************************************************************)
(* C22: the flag and the count.                                            *)
(***************************************************************************)
\* C22 as stated: in every reachable state hasActiveFilters is true iff the
\* active filter count is greater than 0.
C22_FlagMatchesCountAsStated == hasActiveFilters <=> activeFilterCount > 0

\* where the code agrees with C22: the flag implies a count above 0, and the
\* two agree unless the search text is white space only
FlagMatchesCountButForWhiteSpace ==
    /\ hasActiveFilters => activeFilterCount > 0
    /\ (searchQuery = <<>> \/ trim(searchQuery) # <<>>)
           => C22_FlagMatchesCountAsStated

(***************************************************************************)
(* C23: every week offered keeps a record.                                 *)
(***************************************************************************)
\* the records kept when the week is the only criterion
OfWeek(key) == filter(updates, <<>>, Null, key, tz)

\* C23: for every week derived from the collection, the filter with that
\* week's key and no search text and no category keeps a record, and no
\* record is kept for two different weeks.
C23_OfferedWeeksKeepRecords ==
    /\ \A b \in Range(availableWeeks) : OfWeek(b.key) # <<>>
    /\ \A b, c \in Range(availableWeeks) :
           b # c => Ids(OfWeek(b.key)) \cap Ids(OfWeek(c.key)) = {}

\* two weeks are offered west of UTC, one for a record whose date string
\* names a Sunday; each week keeps its one record
C23_Witness ==
    /\ tz < 0
    /\ Len(availableWeeks) = 2
    /\ \E i \in 1..Len(updates) :
           (DaysFromCivil(updates[i].date[1], updates[i].date[2], updates[i].date[3]) + 4) % 7 = 0
    /\ \A b \in Range(availableWeeks) : Len(OfWeek(b.key)) = 1

(***************************************************************************)
(* C24: the two Apps of the file agree when no week is selected.           *)
(***************************************************************************)
\* C24: for the collection, the search text and the category of every
\* reachable state, the filter with week "all" keeps the records the earlier
\* filter keeps, in the same order, the month groups of the two are the same,
\* and with week "all" selected the two active-filters flags are equal.
C24_VariantsAgree ==
    /\ filter(updates, searchQuery, selectedDomain, "all", tz) = filteredUpdatesEarlier
    /\ groupByMonth(filter(updates, searchQuery, selectedDomain, "all", tz), tz)
           = groupedByMonthEarlier
    /\ selectedWeek = "all" =>
           /\ filteredUpdates = filteredUpdatesEarlier
           /\ groupedByMonth = groupedByMonthEarlier
           /\ hasActiveFilters = hasActiveFiltersEarlier

\* no week is selected, a search text and a category are, and together they
\* keep one record of two, each alone keeping it too
C24_Witness ==
    /\ selectedWeek = "all"
    /\ trim(searchQuery) # <<>>
    /\ selectedDomain # Null
    /\ Len(updates) = 2
    /\ Len(filteredUpdatesEarlier) = 1
    /\ Len(TextAxis) = 2
    /\ hasActiveFiltersEarlier

(***************************************************************************)
(* C25: the Filters button changes the panel only.                         *)
(***************************************************************************)
\* C25: every step of the Filters button turns the panel's flag over and
\* leaves the collection, the three criteria, the view mode and the filtered
\* records as they are.
C25_PanelOnly ==
    [][ToggleFilters =>
          /\ showFilters' = ~showFilters
          /\ UNCHANGED <<updates, searchQuery, selectedDomain, selectedWeek,
                         viewMode, viewModeEntry>>
          /\ filter(updates', searchQuery', selectedDomain', selectedWeek', tz')
                 = filteredUpdates]_vars

\* the panel is hidden while all three criteria are set and keep a record out
C25_Witness ==
    /\ ~showFilters
    /\ searchQuery # <<>> /\ selectedDomain # Null /\ selectedWeek # "all"
    /\ Len(filteredUpdates) < Len(updates)

(***************************************************************************)
(* C26: the statistics count the whole collection.                         *)
(***************************************************************************)
\* the places of the collection with the status
WithStatus(status) == {i \in 1..Len(updates) : updates[i].status = status}

\* C26: total is the number of records of the collection, launched, preview
\* and inDevelopment are the numbers of its records with status GA, Preview
\* and New, whatever the criteria and the view mode; the three add up to at
\* most total, and the filtered records are at most total; a step that leaves
\* the collection as it is leaves the statistics as they are.
C26_Statistics ==
    /\ [](/\ statistics.total = Len(updates)
          /\ statistics.launched = Cardinality(WithStatus("GA"))
          /\ statistics.preview = Cardinality(WithStatus("Preview"))
          /\ statistics.inDevelopment = Cardinality(WithStatus("New"))
          /\ statistics.launched + statistics.preview + statistics.inDevelopment
                 <= statistics.total
          /\ Len(filteredUpdates) <= statistics.total)
    /\ [][UNCHANGED updates => statistics' = statistics]_vars

\* in the timeline view, filters keep one record of two, one of them Retired
\* and counted in total only
C26_Witness ==
    /\ viewMode = "timeline"
    /\ hasActiveFilters
    /\ Len(updates) = 2
    /\ Len(filteredUpdates) = 1
    /\ statistics.launched + statistics.preview + statistics.inDevelopment = 1
    /\ statistics.total = 2

=============================================================================
